---- MODULE Spec2Model ----
(***************************************************************************)
(* Model of src/src/index.ts: the SMTP mailbox probe (smtpVerifyMailbox)   *)
(* and the request flow around it (verifyEmail, resolveMx).                *)
(*                                                                         *)
(* Text is a sequence of one-character strings; "CR" and "LF" stand for    *)
(* the characters \r and \n.  A fixed message such as "Timeout" is the     *)
(* one-element sequence holding it.                                        *)
(***************************************************************************)
EXTENDS Integers, Sequences, FiniteSets, TLC

VARIABLES
    pc,          \* position of verifyEmail: "start", "mx", "await", "done"
    email,       \* the address under verification (input)
    dnsAnswer,   \* what dns.resolveMx will call back with (input)
    dnsLookups,  \* the domains dns.resolveMx was called with
    mxRecords,   \* the list resolveMx resolved to (sorted)
    cur,         \* index into mxRecords of the host being probed (0: none)
    sess,        \* the probe sessions opened so far, in the order opened
    result,      \* the value verifyEmail returned
    feed,        \* the reads the servers of this run can deliver (input)
    crashed      \* an exception escaped an event callback: the process is gone

vars == <<pc, email, dnsAnswer, dnsLookups, mxRecords, cur, sess, result, feed, crashed>>

(***************************************************************************)
(* Bounds of the model                                                     *)
(***************************************************************************)
MaxMx == 2        \* most MX records in a DNS answer
MaxBuf == 4       \* most characters held in dataBuffer between two reads

(***************************************************************************)
(* Program constants                                                       *)
(***************************************************************************)
NoCode == -1      \* parseCode's undefined / an outcome without a code field

Digits == {"0", "1", "2", "3", "4", "5", "6", "7", "8", "9"}

DigitVal(c) ==
    CASE c = "0" -> 0 [] c = "1" -> 1 [] c = "2" -> 2 [] c = "3" -> 3
      [] c = "4" -> 4 [] c = "5" -> 5 [] c = "6" -> 6 [] c = "7" -> 7
      [] c = "8" -> 8 [] c = "9" -> 9

CRLF == <<"CR", "LF">>

(***************************************************************************)
(* String helpers: endsWith, split, filter, as the data handler uses them. *)
(***************************************************************************)
EndsWithCRLF(s) ==
    /\ Len(s) >= 2
    /\ s[Len(s) - 1] = "CR"
    /\ s[Len(s)] = "LF"

\* s.split("\r\n"): the pieces between the separators, empty ones included.
RECURSIVE SplitFrom(_, _, _)
SplitFrom(s, i, piece) ==
    IF i > Len(s) THEN <<piece>>
    ELSE IF i < Len(s) /\ s[i] = "CR" /\ s[i + 1] = "LF"
         THEN <<piece>> \o SplitFrom(s, i + 2, <<>>)
         ELSE SplitFrom(s, i + 1, Append(piece, s[i]))

SplitCRLF(s) == SplitFrom(s, 1, <<>>)

\* .filter((l) => l.length > 0)
NonEmptyLines(s) == SelectSeq(SplitCRLF(s), LAMBDA l : Len(l) > 0)

\* line.match(/^(\d{3})/) and parseInt of the match
parseCode(line) ==
    IF Len(line) >= 3 /\ line[1] \in Digits /\ line[2] \in Digits /\ line[3] \in Digits
    THEN 100 * DigitVal(line[1]) + 10 * DigitVal(line[2]) + DigitVal(line[3])
    ELSE NoCode

(***************************************************************************)
(* The probe session: the closure state of one smtpVerifyMailbox call.     *)
(*   sock: "open"; "ended" once the engine called socket.end() (the        *)
(*   writable side is finished, the server can still be read);             *)
(*   "destroyed" once the engine called socket.destroy(); "closed" once    *)
(*   the runtime tore the socket down itself (after an error, after the    *)
(*   peer's end, after a write on an ended socket).                        *)
(*   wire: the commands the socket accepted; refused: the commands written *)
(*   after end(), which the socket rejects and never transmits.            *)
(*   replies (history): how many complete SMTP replies -- lines with a     *)
(*   code not followed by "-" -- the reads processed so far contained.     *)
(***************************************************************************)
Commands == {"HELO", "MAIL FROM", "RCPT TO", "QUIT"}

NoOutcome == [success |-> FALSE, code |-> NoCode, message |-> <<>>]

NewSession(mxHost) ==
    [ host         |-> mxHost,
      dataBuffer   |-> <<>>,
      step         |-> 0,
      finished     |-> FALSE,
      timer        |-> "armed",
      sock         |-> "open",
      resolveCalls |-> 0,
      outcome      |-> NoOutcome,
      wire         |-> <<>>,
      refused      |-> <<>>,
      replies      |-> 0 ]

\* The promise's resolve: only the first call settles the promise.
resolve(s, o) ==
    [s EXCEPT !.resolveCalls = @ + 1,
              !.outcome = IF s.resolveCalls = 0 THEN o ELSE @]

Settled(s) == s.resolveCalls > 0

clearTimeout(s) ==
    [s EXCEPT !.timer = IF @ = "armed" THEN "cleared" ELSE @]

\* socket.write(cmd + "\r\n"): an ended socket rejects the write
\* (write after end) and is torn down by the runtime.
socketWrite(s, cmd) ==
    CASE s.sock = "open"  -> [s EXCEPT !.wire = Append(@, cmd)]
      [] s.sock = "ended" -> [s EXCEPT !.refused = Append(@, cmd), !.sock = "closed"]
      [] OTHER            -> s

send(s, cmd) == socketWrite(s, cmd)

\* socket.end() left out: the socket stays as it is.
socketEnd_Missing(s) == s

\* socket.end(): finishes the writable side.
socketEnd(s) ==
    [s EXCEPT !.sock = IF @ = "open" THEN "ended" ELSE @]

\* socket.end(data) is write(data) followed by end().
socketEndWith(s, cmd) == socketEnd(socketWrite(s, cmd))

\* socket.destroy()
socketDestroy(s) == [s EXCEPT !.sock = "destroyed"]

\* NextCommand going on to delivery after MAIL FROM.
NextCommand_Data(step) ==
    CASE step = 0 -> "HELO"
      [] step = 1 -> "MAIL FROM"
      [] step = 2 -> "DATA"

\* The command sent after a good reply at steps 0, 1, 2.
NextCommand(step) ==
    CASE step = 0 -> "HELO"
      [] step = 1 -> "MAIL FROM"
      [] step = 2 -> "RCPT TO"

IsFinalReplyLine(line) ==
    /\ parseCode(line) # NoCode
    /\ (Len(line) >= 4 => line[4] # "-")

FinalReplyCount(lines) ==
    Cardinality({i \in 1..Len(lines) : IsFinalReplyLine(lines[i])})

\* onTimeout without the socket.destroy() call.
onTimeout_NoDestroy(s) ==
    IF ~s.finished
    THEN resolve([s EXCEPT !.finished = TRUE, !.timer = "fired"],
                 [success |-> FALSE, code |-> NoCode, message |-> <<"Timeout">>])
    ELSE [s EXCEPT !.timer = "fired"]

\* The timeout callback.
onTimeout(s) ==
    IF ~s.finished
    THEN resolve(socketDestroy([s EXCEPT !.finished = TRUE, !.timer = "fired"]),
                 [success |-> FALSE, code |-> NoCode, message |-> <<"Timeout">>])
    ELSE [s EXCEPT !.timer = "fired"]

\* onIntermediateReply flagging a 4xx failure as a success.
onIntermediateReply_SuccessBelow500(s, code, lastLine) ==
    IF code >= 400
    THEN resolve(socketEndWith(clearTimeout([s EXCEPT !.finished = TRUE]), "QUIT"),
                 [success |-> (code < 500), code |-> code, message |-> lastLine])
    ELSE [send(s, NextCommand(s.step)) EXCEPT !.step = s.step + 1]

\* onIntermediateReply resolving without the code of the failing reply.
onIntermediateReply_NoCode(s, code, lastLine) ==
    IF code >= 400
    THEN resolve(socketEndWith(clearTimeout([s EXCEPT !.finished = TRUE]), "QUIT"),
                 [success |-> FALSE, code |-> NoCode, message |-> lastLine])
    ELSE [send(s, NextCommand(s.step)) EXCEPT !.step = s.step + 1]

\* Steps 0, 1, 2 of the data handler, for a parsed code.
onIntermediateReply(s, code, lastLine) ==
    IF code >= 400
    THEN resolve(socketEndWith(clearTimeout([s EXCEPT !.finished = TRUE]), "QUIT"),
                 [success |-> FALSE, code |-> code, message |-> lastLine])
    ELSE [send(s, NextCommand(s.step)) EXCEPT !.step = s.step + 1]

\* onRcptReply with the success band widened to every code below 400.
onRcptReply_WideBand(s, code, lastLine) ==
    LET t == socketEnd(send(clearTimeout([s EXCEPT !.finished = TRUE]), "QUIT"))
    IN  resolve(t, [success |-> (code >= 200 /\ code < 400), code |-> code,
                    message |-> lastLine])

\* Step 3 of the data handler, for a parsed code.
onRcptReply(s, code, lastLine) ==
    LET t == socketEnd(send(clearTimeout([s EXCEPT !.finished = TRUE]), "QUIT"))
    IN  IF code >= 200 /\ code < 300
        THEN resolve(t, [success |-> TRUE, code |-> code, message |-> lastLine])
        ELSE IF code >= 500 /\ code < 600
        THEN resolve(t, [success |-> FALSE, code |-> code, message |-> lastLine])
        ELSE resolve(t, [success |-> FALSE, code |-> code, message |-> lastLine])

\* The data handler throws when the buffer holds nothing but line ends:
\* lines is empty, lastLine is undefined and parseCode reads .match of it.
onDataThrows(s, chunk) ==
    LET buf == s.dataBuffer \o chunk
    IN  EndsWithCRLF(buf) /\ NonEmptyLines(buf) = <<>>

\* The data handler, for a chunk on which it does not throw.
onData(s, chunk) ==
    LET buf == s.dataBuffer \o chunk
    IN  IF ~EndsWithCRLF(buf)
        THEN [s EXCEPT !.dataBuffer = buf]
        ELSE LET lines    == NonEmptyLines(buf)
                 lastLine == lines[Len(lines)]
                 code     == parseCode(lastLine)
                 t        == [s EXCEPT !.dataBuffer = <<>>,
                                       !.replies = @ + FinalReplyCount(lines)]
             IN  IF code = NoCode THEN t
                 ELSE IF t.step \in {0, 1, 2} THEN onIntermediateReply(t, code, lastLine)
                 ELSE onRcptReply(t, code, lastLine)

\* onError reporting a fixed message instead of err.message.
onError_FixedText(s, text) ==
    LET t == [s EXCEPT !.sock = "closed"]
    IN  IF s.finished THEN t
        ELSE resolve(clearTimeout([t EXCEPT !.finished = TRUE]),
                     [success |-> FALSE, code |-> NoCode, message |-> <<"Socket error">>])

\* The "error" handler; the runtime closes an errored socket.
onError(s, text) ==
    LET t == [s EXCEPT !.sock = "closed"]
    IN  IF s.finished THEN t
        ELSE resolve(clearTimeout([t EXCEPT !.finished = TRUE]),
                     [success |-> FALSE, code |-> NoCode, message |-> text])

\* onEnd without the clearTimeout call.
onEnd_KeepTimer(s) ==
    LET t == [s EXCEPT !.sock = "closed"]
    IN  IF s.finished THEN t
        ELSE resolve([t EXCEPT !.finished = TRUE],
                     [success |-> FALSE, code |-> NoCode,
                      message |-> <<"Connection ended unexpectedly">>])

\* The "end" handler; the runtime closes the socket after the peer's end.
onEnd(s) ==
    LET t == [s EXCEPT !.sock = "closed"]
    IN  IF s.finished THEN t
        ELSE resolve(clearTimeout([t EXCEPT !.finished = TRUE]),
                     [success |-> FALSE, code |-> NoCode,
                      message |-> <<"Connection ended unexpectedly">>])

(***************************************************************************)
(* Format check, MX resolution and the fold of verifyEmail.                *)
(***************************************************************************)
\* [^\s@]: any character but white space and "@"
IsAddrChar(c) == c # " " /\ c # "@"

\* The format check left out: every address passes.
isEmailFormatValid_NoCheck(e) == TRUE

\* EMAIL_REGEX = /^[^\s@]+@[^\s@]+\.[^\s@]+$/
isEmailFormatValid(e) ==
    \E at \in 2..Len(e) :
        /\ e[at] = "@"
        /\ \A i \in 1..Len(e) : i # at => IsAddrChar(e[i])
        /\ \E dot \in (at + 2)..(Len(e) - 1) : e[dot] = "."

\* email.split("@")[1]
RECURSIVE UpToAt(_)
UpToAt(e) ==
    IF e = <<>> \/ Head(e) = "@" THEN <<>> ELSE <<Head(e)>> \o UpToAt(Tail(e))

getDomain(e) ==
    LET local == UpToAt(e)
    IN  UpToAt(SubSeq(e, Len(local) + 2, Len(e)))

\* resolveMx without the sort: the records in the order DNS gave them.
SortByPriority_Unsorted(addresses) == addresses

\* addresses.sort((a, b) => a.priority - b.priority): a stable sort.
RECURSIVE InsertByPriority(_, _)
InsertByPriority(sorted, r) ==
    IF sorted = <<>> THEN <<r>>
    ELSE IF r.priority - Head(sorted).priority < 0
         THEN <<r>> \o sorted
         ELSE <<Head(sorted)>> \o InsertByPriority(Tail(sorted), r)

RECURSIVE SortByPriority(_)
SortByPriority(addresses) ==
    IF addresses = <<>> THEN <<>>
    ELSE InsertByPriority(SortByPriority(SubSeq(addresses, 1, Len(addresses) - 1)),
                          addresses[Len(addresses)])

NoResult == [status |-> "pending", valid |-> FALSE, smtpHostTried |-> "",
             smtpCode |-> NoCode, smtpMessage |-> <<>>]

InvalidFormatResult == [NoResult EXCEPT !.status = "invalid_format"]

NoMxResult == [NoResult EXCEPT !.status = "no_mx"]

UnknownResult == [NoResult EXCEPT !.status = "unknown"]

\* result.success && result.code && result.code >= 200 && result.code < 300
IsDeliverable(o) ==
    o.success /\ o.code # NoCode /\ o.code # 0 /\ o.code >= 200 /\ o.code < 300

\* IsUndeliverable with every failure code, 4xx included, taken as final.
IsUndeliverable_From400(o) ==
    o.code # NoCode /\ o.code # 0 /\ o.code >= 400 /\ o.code < 600

\* result.code && result.code >= 500 && result.code < 600
IsUndeliverable(o) ==
    o.code # NoCode /\ o.code # 0 /\ o.code >= 500 /\ o.code < 600

DeliverableResult(host, o) ==
    [status |-> "deliverable", valid |-> TRUE, smtpHostTried |-> host,
     smtpCode |-> o.code, smtpMessage |-> o.message]

UndeliverableResult(host, o) ==
    [status |-> "undeliverable", valid |-> FALSE, smtpHostTried |-> host,
     smtpCode |-> o.code, smtpMessage |-> o.message]

(***************************************************************************)
(* Inputs                                                                  *)
(***************************************************************************)
Emails ==
    { <<"a", "@", "b", ".", "c">>,     \* well formed
      <<"a", "b", ".", "c">>,          \* no "@"
      <<"a", "@", "b">>,               \* no dot in the domain part
      <<"a", "@", "b", ".">>,          \* nothing after the dot
      <<"a", " ", "@", "b", ".", "c">> }

MxPool ==
    { [exchange |-> "mx20", priority |-> 20],
      [exchange |-> "mx10", priority |-> 10],
      [exchange |-> "mx30", priority |-> 30] }

\* What DNS can answer: an error, or up to MaxMx distinct records in any order.
RECURSIVE SeqsOver(_, _)
SeqsOver(S, n) ==
    IF n = 0 THEN {<<>>}
    ELSE LET shorter == SeqsOver(S, n - 1)
         IN  shorter \cup {Append(q, x) : q \in {r \in shorter : Len(r) = n - 1}, x \in S}

NoRepeat(q) == \A i, j \in 1..Len(q) : i # j => q[i] # q[j]

DnsAnswers ==
    { [err |-> TRUE, addresses |-> <<>>] } \cup
    { [err |-> FALSE, addresses |-> a] :
        a \in {q \in SeqsOver(MxPool, MaxMx) : NoRepeat(q)} }

\* What the server can send in one read.
Chunks ==
    { <<"2", "5", "0", "CR", "LF">>,
      <<"3", "5", "4", "CR", "LF">>,
      <<"4", "5", "0", "CR", "LF">>,
      <<"5", "5", "0", "CR", "LF">>,
      <<"2", "5", "0", "-", "CR", "LF">>,   \* a continuation line
      <<"2", "5">>,                         \* the start of a line
      <<"0", "CR", "LF">>,                  \* the rest of it
      <<"5", "5", "0", "CR">>,              \* a line whose end is cut in two
      <<"LF">>,
      <<"x", "CR", "LF">>,                  \* a line without a code
      <<"CR", "LF">> }                      \* an empty line

\* Reads that each carry one whole single-line reply.
ReplyChunks ==
    { <<"2", "5", "0", "CR", "LF">>,
      <<"4", "5", "0", "CR", "LF">>,
      <<"5", "5", "0", "CR", "LF">> }

ErrorTexts == { <<"ECONNRESET">>, <<"ECONNREFUSED">> }


(***************************************************************************)
(* The state machine                                                       *)
(***************************************************************************)
\* A verification request: any address, any DNS answer, servers that send
\* whole single-line replies.
Init ==
    /\ pc = "start"
    /\ email \in Emails
    /\ dnsAnswer \in DnsAnswers
    /\ dnsLookups = <<>>
    /\ mxRecords = <<>>
    /\ cur = 0
    /\ sess = <<>>
    /\ result = NoResult
    /\ feed = ReplyChunks
    /\ crashed = FALSE

\* A request that probes one exchanger whose server sends arbitrary reads.
ProbeInit ==
    /\ pc = "start"
    /\ email \in {e \in Emails : isEmailFormatValid(e)}
    /\ dnsAnswer \in {a \in DnsAnswers : Len(a.addresses) = 1}
    /\ dnsLookups = <<>>
    /\ mxRecords = <<>>
    /\ cur = 0
    /\ sess = <<>>
    /\ result = NoResult
    /\ feed = Chunks
    /\ crashed = FALSE

\* verifyEmail up to its first await: the format check and the call of resolveMx.
VerifyEmail ==
    /\ ~crashed
    /\ pc = "start"
    /\ IF ~isEmailFormatValid(email)
       THEN /\ result' = InvalidFormatResult
            /\ pc' = "done"
            /\ UNCHANGED dnsLookups
       ELSE /\ dnsLookups' = Append(dnsLookups, getDomain(email))
            /\ pc' = "mx"
            /\ UNCHANGED result
    /\ UNCHANGED <<email, dnsAnswer, mxRecords, cur, sess, feed, crashed>>

\* The callback of dns.resolveMx and the continuation of verifyEmail: no_mx on
\* rejection, else the first iteration of the loop opens the first session.
ResolveMxDone ==
    /\ ~crashed
    /\ pc = "mx"
    /\ IF dnsAnswer.err \/ Len(dnsAnswer.addresses) = 0
       THEN /\ result' = NoMxResult
            /\ pc' = "done"
            /\ UNCHANGED <<mxRecords, cur, sess>>
       ELSE /\ mxRecords' = SortByPriority(dnsAnswer.addresses)
            /\ cur' = 1
            /\ sess' = <<NewSession(mxRecords'[1].exchange)>>
            /\ pc' = "await"
            /\ UNCHANGED result
    /\ UNCHANGED <<email, dnsAnswer, dnsLookups, feed, crashed>>

\* The loop body without the await: it runs on before the promise settles.
Awaited_NoAwait(s) == TRUE

\* `await` resumes verifyEmail once the session's promise is settled.
Awaited(s) == Settled(s)

\* The continuation of `await smtpVerifyMailbox(host, email)`: the body of the
\* loop after the await, then the next iteration or the return after the loop.
AfterProbe ==
    /\ ~crashed
    /\ pc = "await"
    /\ Awaited(sess[cur])
    /\ LET o    == sess[cur].outcome
           host == mxRecords[cur].exchange
       IN  IF IsDeliverable(o)
           THEN /\ result' = DeliverableResult(host, o)
                /\ pc' = "done"
                /\ UNCHANGED <<cur, sess>>
           ELSE IF IsUndeliverable(o)
           THEN /\ result' = UndeliverableResult(host, o)
                /\ pc' = "done"
                /\ UNCHANGED <<cur, sess>>
           ELSE IF cur < Len(mxRecords)
           THEN /\ cur' = cur + 1
                /\ sess' = Append(sess, NewSession(mxRecords[cur + 1].exchange))
                /\ UNCHANGED <<pc, result>>
           ELSE /\ result' = UnknownResult
                /\ pc' = "done"
                /\ UNCHANGED <<cur, sess>>
    /\ UNCHANGED <<email, dnsAnswer, dnsLookups, mxRecords, feed, crashed>>

\* A socket still delivers events to its handlers.
Live(s) == s.sock \in {"open", "ended"}

\* A "data" event of session k.
DataEvent(k, chunk) ==
    /\ ~crashed
    /\ Live(sess[k])
    /\ EndsWithCRLF(sess[k].dataBuffer \o chunk)
         \/ Len(sess[k].dataBuffer) + Len(chunk) <= MaxBuf
    /\ IF onDataThrows(sess[k], chunk)
       THEN /\ crashed' = TRUE
            /\ sess' = [sess EXCEPT ![k].dataBuffer = @ \o chunk]
       ELSE /\ sess' = [sess EXCEPT ![k] = onData(@, chunk)]
            /\ UNCHANGED crashed
    /\ UNCHANGED <<pc, email, dnsAnswer, dnsLookups, mxRecords, cur, result, feed>>

\* The timer of session k expires.
TimerFire(k) ==
    /\ ~crashed
    /\ sess[k].timer = "armed"
    /\ sess' = [sess EXCEPT ![k] = onTimeout(@)]
    /\ UNCHANGED <<pc, email, dnsAnswer, dnsLookups, mxRecords, cur, result, feed, crashed>>

\* An "error" event of session k.
ErrorEvent(k, text) ==
    /\ ~crashed
    /\ Live(sess[k])
    /\ sess' = [sess EXCEPT ![k] = onError(@, text)]
    /\ UNCHANGED <<pc, email, dnsAnswer, dnsLookups, mxRecords, cur, result, feed, crashed>>

\* An "end" event of session k: the peer closed its side.
EndEvent(k) ==
    /\ ~crashed
    /\ Live(sess[k])
    /\ sess' = [sess EXCEPT ![k] = onEnd(@)]
    /\ UNCHANGED <<pc, email, dnsAnswer, dnsLookups, mxRecords, cur, result, feed, crashed>>

Next ==
    \/ VerifyEmail
    \/ ResolveMxDone
    \/ AfterProbe
    \/ \E k \in 1..Len(sess) : \E chunk \in feed : DataEvent(k, chunk)
    \/ \E k \in 1..Len(sess) : TimerFire(k)
    \/ \E k \in 1..Len(sess) : \E text \in ErrorTexts : ErrorEvent(k, text)
    \/ \E k \in 1..Len(sess) : EndEvent(k)

Spec == Init /\ [][Next]_vars

ProbeSpec == ProbeInit /\ [][Next]_vars

\* The timer callback runs as long as the process lives.
LiveProbeSpec ==
    ProbeInit /\ [][Next]_vars /\ WF_vars(\E k \in 1..Len(sess) : TimerFire(k))

(***************************************************************************)
(* Vocabulary of the claims                                                *)
(***************************************************************************)
Sessions == 1..Len(sess)

TimeoutOutcome == [success |-> FALSE, code |-> NoCode, message |-> <<"Timeout">>]

HandshakeCommands == {"HELO", "MAIL FROM", "RCPT TO"}

\* Every command a session handed to its socket, accepted or not.
Written(s) == s.wire \o s.refused

HandshakeCount(s) ==
    Cardinality({i \in 1..Len(Written(s)) : Written(s)[i] \in HandshakeCommands})

Accepted(o) == o.success /\ o.code >= 200 /\ o.code < 300

Rejected(o) == o.code >= 500 /\ o.code < 600

Definitive(o) == Accepted(o) \/ Rejected(o)

PriorityOf(h) == (CHOOSE r \in MxPool : r.exchange = h).priority

(***************************************************************************)
(* C1: in one probe session resolve is invoked at most once, and the       *)
(* outcome produced first is never replaced by a later one.                *)
(***************************************************************************)
C1_ResolvedAtMostOnce ==
    [][\A k \in Sessions :
          /\ sess'[k].resolveCalls <= 1
          /\ Settled(sess[k]) => sess'[k].outcome = sess[k].outcome]_vars

(***************************************************************************)
(* C2: once a session has finished, every later event of that session      *)
(* leaves step, finished and the outcome unchanged and writes no command.  *)
(***************************************************************************)
C2_EventsAfterFinishAreNoOps ==
    [][\A k \in Sessions :
          sess[k].finished =>
              /\ sess'[k].step = sess[k].step
              /\ sess'[k].finished
              /\ sess'[k].outcome = sess[k].outcome
              /\ Written(sess'[k]) = Written(sess[k])]_vars

(***************************************************************************)
(* C3: every probe session eventually resolves, whatever the server sends  *)
(* or fails to send, and no handler throws; the armed timer eventually     *)
(* fires unless cancelled (LiveProbeSpec).                                 *)
(***************************************************************************)
C3_EventuallyResolves ==
    /\ [](~crashed)
    /\ (Len(sess) >= 1) ~> (Len(sess) >= 1 /\ sess[1].finished)

(***************************************************************************)
(* C4: a session whose timer expired, at whichever step, is resolved with  *)
(* success = false, message "Timeout" and no code, its connection is       *)
(* destroyed, and no later event changes that.                             *)
(***************************************************************************)
C4_TimeoutOutcome ==
    \A k \in Sessions :
        sess[k].timer = "fired" =>
            /\ sess[k].finished
            /\ sess[k].resolveCalls = 1
            /\ sess[k].outcome = TimeoutOutcome
            /\ sess[k].sock = "destroyed"

C4_Witness ==
    \E k \in Sessions :
        /\ sess[k].timer = "fired"
        /\ sess[k].step = 3
        /\ sess[k].outcome = TimeoutOutcome

(***************************************************************************)
(* C5: at step 3, unresolved, every framed reply with a 3-digit code c     *)
(* resolves the session with that code, success exactly when c is in       *)
(* [200,300), Rejected when in [500,600), Inconclusive otherwise; QUIT is  *)
(* written and the connection ended in the same step.                      *)
(***************************************************************************)
C5_RcptDecision ==
    \A k \in Sessions : \A chunk \in feed :
        LET s    == sess[k]
            buf  == s.dataBuffer \o chunk
            c    == parseCode(NonEmptyLines(buf)[Len(NonEmptyLines(buf))])
            t    == onData(s, chunk)
        IN  (/\ s.step = 3 /\ ~s.finished /\ Live(s)
             /\ EndsWithCRLF(buf) /\ ~onDataThrows(s, chunk)
             /\ c # NoCode)
            => /\ t.finished
               /\ t.resolveCalls = 1
               /\ t.outcome.code = c
               /\ t.outcome.success = (c >= 200 /\ c < 300)
               /\ Accepted(t.outcome) = (c >= 200 /\ c < 300)
               /\ Rejected(t.outcome) = (c >= 500 /\ c < 600)
               /\ t.wire = Append(s.wire, "QUIT")
               /\ t.sock = "ended"
               /\ t.step = 3

C5_Witness ==
    \E k \in Sessions :
        /\ sess[k].step = 3
        /\ sess[k].finished
        /\ Rejected(sess[k].outcome)
        /\ sess[k].wire = <<"HELO", "MAIL FROM", "RCPT TO", "QUIT">>
        /\ sess[k].sock = "ended"

(***************************************************************************)
(* C6: after a reply with code >= 400 at step s in {0,1,2} resolved the    *)
(* session, the session never advances past step s and never writes HELO,  *)
(* MAIL FROM or RCPT TO, whatever the server sends afterwards.             *)
(***************************************************************************)
C6_NoAdvanceAfterFailure ==
    [][\A k \in Sessions :
          (/\ sess[k].finished
           /\ sess[k].step \in {0, 1, 2}
           /\ sess[k].outcome.code >= 400)
          => /\ sess'[k].step = sess[k].step
             /\ HandshakeCount(sess'[k]) = HandshakeCount(sess[k])]_vars

(***************************************************************************)
(* C7: commands are strictly request/reply: the n-th of HELO, MAIL FROM,   *)
(* RCPT TO is written only after n complete replies were received, also    *)
(* when a multi-line reply arrives line by line in separate reads.         *)
(***************************************************************************)
C7_RequestReply ==
    \A k \in Sessions : HandshakeCount(sess[k]) <= sess[k].replies

(***************************************************************************)
(* C8: verifyEmail probes exactly the hosts up to and including the first  *)
(* one whose outcome is definitive and returns deliverable resp.           *)
(* undeliverable with that host and code; other hosts are skipped; with no *)
(* definitive host every host is probed and the result is unknown.         *)
(***************************************************************************)
FirstDefinitive ==
    IF \E k \in Sessions : Definitive(sess[k].outcome)
    THEN CHOOSE k \in Sessions :
            /\ Definitive(sess[k].outcome)
            /\ \A j \in 1..(k - 1) : ~Definitive(sess[j].outcome)
    ELSE 0

C8_FirstDefinitiveHostDecides ==
    /\ \A k \in Sessions : sess[k].host = mxRecords[k].exchange
    /\ \A k \in Sessions : k < Len(sess) => ~Definitive(sess[k].outcome)
    /\ (pc = "done" /\ Len(mxRecords) > 0) =>
          LET d == FirstDefinitive
          IN  IF d # 0
              THEN /\ Len(sess) = d
                   /\ result.status =
                         (IF Accepted(sess[d].outcome) THEN "deliverable" ELSE "undeliverable")
                   /\ result.smtpHostTried = mxRecords[d].exchange
                   /\ result.smtpCode = sess[d].outcome.code
              ELSE /\ Len(sess) = Len(mxRecords)
                   /\ result.status = "unknown"

C8_Witness ==
    /\ pc = "done"
    /\ Len(sess) = 2
    /\ sess[1].outcome.code = 450
    /\ sess[1].step = 3
    /\ result.status = "undeliverable"
    /\ result.smtpHostTried = sess[2].host
    /\ result.smtpCode = 550

(***************************************************************************)
(* C9: at most one probe session is unresolved at any time: the next       *)
(* connection is opened only after the previous session has resolved.      *)
(***************************************************************************)
C9_OneSessionAtATime ==
    /\ Cardinality({k \in Sessions : ~Settled(sess[k])}) <= 1
    /\ \A k \in Sessions : k < Len(sess) => Settled(sess[k]) /\ sess[k].finished

C9_Witness ==
    /\ Len(sess) = 2
    /\ Live(sess[1])
    /\ Settled(sess[1])
    /\ ~Settled(sess[2])
    /\ sess[2].step = 2

(***************************************************************************)
(* C10: whatever order DNS returns the MX records in, hosts are contacted  *)
(* in ascending priority value, each exchanger at most once.               *)
(***************************************************************************)
C10_AscendingPriorityOnce ==
    /\ \A i, j \in Sessions :
          i < j => /\ PriorityOf(sess[i].host) <= PriorityOf(sess[j].host)
                   /\ sess[i].host # sess[j].host
    /\ \A k \in Sessions :
          \E i \in 1..Len(dnsAnswer.addresses) : dnsAnswer.addresses[i].exchange = sess[k].host

C10_Witness ==
    /\ Len(dnsAnswer.addresses) = 2
    /\ dnsAnswer.addresses[1].priority > dnsAnswer.addresses[2].priority
    /\ Len(sess) = 2
    /\ sess[1].host = dnsAnswer.addresses[2].exchange
    /\ sess[2].host = dnsAnswer.addresses[1].exchange

(***************************************************************************)
(* C11: an SMTP connection is opened only after the format check passed    *)
(* and MX resolution returned a non-empty list; a malformed address yields *)
(* invalid_format with no DNS lookup and no connection, a failed or empty  *)
(* MX resolution yields no_mx with no connection.                          *)
(***************************************************************************)
\* One "@" with something before it, no white space, and in the domain part
\* a dot with something on both sides.
WellFormed(e) ==
    /\ Cardinality({i \in 1..Len(e) : e[i] = "@"}) = 1
    /\ \A i \in 1..Len(e) : e[i] # " "
    /\ LET at == CHOOSE i \in 1..Len(e) : e[i] = "@"
       IN  /\ at > 1
           /\ \E dot \in 1..Len(e) : e[dot] = "." /\ dot > at + 1 /\ dot < Len(e)

MxFound == ~dnsAnswer.err /\ Len(dnsAnswer.addresses) > 0

C11_ConnectOnlyAfterChecks ==
    /\ sess # <<>> => WellFormed(email) /\ MxFound /\ dnsLookups # <<>>
    /\ dnsLookups # <<>> => WellFormed(email)
    /\ (pc = "done" /\ ~WellFormed(email)) =>
          result.status = "invalid_format" /\ dnsLookups = <<>> /\ sess = <<>>
    /\ (pc = "done" /\ WellFormed(email) /\ ~MxFound) =>
          result.status = "no_mx" /\ sess = <<>>

C11_Witness ==
    /\ pc = "done"
    /\ WellFormed(email)
    /\ ~dnsAnswer.err
    /\ dnsAnswer.addresses = <<>>
    /\ dnsLookups = << <<"b", ".", "c">> >>
    /\ result.status = "no_mx"

(***************************************************************************)
(* C12: the only commands a probe session ever writes are HELO, MAIL FROM, *)
(* RCPT TO and QUIT; DATA is never written, whatever the server replies.   *)
(***************************************************************************)
C12_OnlyHandshakeAndQuit ==
    \A k \in Sessions : \A i \in 1..Len(Written(sess[k])) :
        /\ Written(sess[k])[i] \in Commands
        /\ Written(sess[k])[i] # "DATA"

C12_Witness ==
    \E k \in Sessions :
        /\ sess[k].wire = <<"HELO", "MAIL FROM", "RCPT TO", "QUIT">>
        /\ sess[k].outcome.success

(***************************************************************************)
(* C13: a socket error on an unresolved session resolves it with           *)
(* success = false, no code and the error's text; the peer's end resolves  *)
(* it with "Connection ended unexpectedly"; the orchestrator answers both  *)
(* by going on to the next host, never with deliverable or undeliverable.  *)
(***************************************************************************)
EndedOutcome ==
    [success |-> FALSE, code |-> NoCode, message |-> <<"Connection ended unexpectedly">>]

NetworkFailure(o) == o = EndedOutcome \/ (o.code = NoCode /\ o.message \in ErrorTexts)

C13_NetworkErrors ==
    /\ \A k \in Sessions :
          (Live(sess[k]) /\ ~sess[k].finished) =>
              /\ \A text \in ErrorTexts :
                    /\ onError(sess[k], text).finished
                    /\ onError(sess[k], text).outcome =
                          [success |-> FALSE, code |-> NoCode, message |-> text]
              /\ onEnd(sess[k]).finished
              /\ onEnd(sess[k]).outcome = EndedOutcome
    /\ \A k \in Sessions :
          (Settled(sess[k]) /\ NetworkFailure(sess[k].outcome)) =>
              /\ (pc = "done" /\ k < Len(mxRecords)) => k < Len(sess)
              /\ (pc = "done" /\ k = Len(sess)) => result.status = "unknown"
              /\ (pc = "done" /\ result.status \in {"deliverable", "undeliverable"}) =>
                    result.smtpHostTried # sess[k].host

C13_Witness ==
    /\ Len(sess) = 2
    /\ sess[1].outcome.message \in ErrorTexts
    /\ sess[2].outcome = EndedOutcome
    /\ pc = "done"
    /\ result.status = "unknown"

\* A read that leaves the buffer framed (ending with CRLF, with a last
\* non-empty line), and the code of that last line.
Framed(s, chunk) ==
    EndsWithCRLF(s.dataBuffer \o chunk) /\ ~onDataThrows(s, chunk)

LastLine(s, chunk) ==
    LET lines == NonEmptyLines(s.dataBuffer \o chunk) IN lines[Len(lines)]

FramedCode(s, chunk) == parseCode(LastLine(s, chunk))

(***************************************************************************)
(* C14: at step 3 a framed reply whose last non-empty line carries no      *)
(* 3-digit code resolves the session as Inconclusive at that moment, with  *)
(* QUIT written and the connection ended.                                  *)
(***************************************************************************)
C14_MalformedRcptReplyResolves ==
    \A k \in Sessions : \A chunk \in feed :
        LET s == sess[k]
            t == onData(s, chunk)
        IN  (/\ s.step = 3 /\ ~s.finished /\ Live(s)
             /\ Framed(s, chunk)
             /\ FramedCode(s, chunk) = NoCode)
            => /\ t.finished
               /\ Settled(t)
               /\ ~t.outcome.success
               /\ ~Rejected(t.outcome)
               /\ t.wire = Append(s.wire, "QUIT")
               /\ t.sock = "ended"

(***************************************************************************)
(* C15: at steps 0, 1, 2 the session writes the next command and advances  *)
(* only when the framed reply's code is in [200,300); a code outside 2xx   *)
(* never advances the step.                                                *)
(***************************************************************************)
C15_AdvanceOnlyOn2xx ==
    \A k \in Sessions : \A chunk \in feed :
        LET s == sess[k]
            t == onData(s, chunk)
            c == FramedCode(s, chunk)
        IN  (/\ s.step \in {0, 1, 2} /\ ~s.finished /\ Live(s)
             /\ Framed(s, chunk)
             /\ c # NoCode)
            => /\ (t.step # s.step) => (c >= 200 /\ c < 300)
               /\ (HandshakeCount(t) # HandshakeCount(s)) => (c >= 200 /\ c < 300)

(***************************************************************************)
(* C16: a 5xx reply at step 0, 1 or 2 of a host is treated like a 5xx      *)
(* reply to RCPT TO: verifyEmail returns undeliverable with that host and  *)
(* code and contacts no further host, though RCPT TO was never sent.       *)
(***************************************************************************)
RcptSent(s) == \E i \in 1..Len(s.wire) : s.wire[i] = "RCPT TO"

C16_EarlyRejectIsFinal ==
    /\ \A k \in Sessions : \A chunk \in feed :
          LET s == sess[k]
              t == onData(s, chunk)
              c == FramedCode(s, chunk)
          IN  (/\ s.step \in {0, 1, 2} /\ ~s.finished /\ Live(s)
               /\ Framed(s, chunk)
               /\ c # NoCode /\ c >= 500 /\ c < 600)
              => /\ t.finished
                 /\ t.outcome.code = c
                 /\ ~t.outcome.success
                 /\ ~RcptSent(t)
    /\ \A k \in Sessions :
          (Settled(sess[k]) /\ Rejected(sess[k].outcome) /\ ~RcptSent(sess[k])) =>
              /\ k = Len(sess)
              /\ pc = "done" =>
                    /\ result.status = "undeliverable"
                    /\ result.smtpHostTried = sess[k].host
                    /\ result.smtpCode = sess[k].outcome.code

C16_Witness ==
    /\ pc = "done"
    /\ Len(mxRecords) = 2
    /\ Len(sess) = 1
    /\ sess[1].wire = <<"HELO", "QUIT">>
    /\ sess[1].outcome.code = 550
    /\ result.status = "undeliverable"
    /\ result.smtpHostTried = mxRecords[1].exchange

(***************************************************************************)
(* C17: a session that has resolved has no pending timer: every terminal   *)
(* resolution by a reply, a socket error or a socket end cancels the timer *)
(* in the step that sets finished, so the callback never runs afterwards.  *)
(***************************************************************************)
C17_NoTimerAfterResolution ==
    \A k \in Sessions :
        /\ sess[k].finished => sess[k].timer # "armed"
        /\ sess[k].timer = "fired" => sess[k].outcome = TimeoutOutcome
        /\ (sess[k].finished /\ sess[k].outcome # TimeoutOutcome) => sess[k].timer = "cleared"

C17_Witness ==
    \E k \in Sessions :
        /\ sess[k].finished
        /\ sess[k].outcome = EndedOutcome
        /\ sess[k].step = 2
        /\ sess[k].timer = "cleared"

Effect(t) == [t EXCEPT !.dataBuffer = <<>>, !.replies = 0]

C19_FramingEffect ==
    /\ \A k \in Sessions : ~EndsWithCRLF(sess[k].dataBuffer)
    /\ \A k \in Sessions : \A chunk \in feed :
          LET s   == sess[k]
              buf == s.dataBuffer \o chunk
              t   == onData(s, chunk)
          IN  Live(s) =>
                /\ ~EndsWithCRLF(buf) => t = [s EXCEPT !.dataBuffer = buf]
                /\ Framed(s, chunk) =>
                      /\ t.dataBuffer = <<>>
                      /\ Effect(t) =
                           Effect(onData([s EXCEPT !.dataBuffer = <<>>],
                                         LastLine(s, chunk) \o CRLF))

(***************************************************************************)
(* C20: success = true is produced only by the step-3 branch on a code in  *)
(* [200,300); whenever verifyEmail returns deliverable for a host, that    *)
(* host's session advanced through greeting, HELO and MAIL FROM on codes   *)
(* below 400, wrote RCPT TO, and smtpCode is the 2xx code of its reply.    *)
(***************************************************************************)
C20_SuccessOnlyFromRcpt ==
    /\ \A k \in Sessions :
          sess[k].outcome.success =>
              /\ sess[k].step = 3
              /\ sess[k].outcome.code >= 200 /\ sess[k].outcome.code < 300
              /\ Len(sess[k].wire) >= 3
              /\ SubSeq(sess[k].wire, 1, 3) = <<"HELO", "MAIL FROM", "RCPT TO">>
    /\ \A k \in Sessions : \A chunk \in feed :
          LET s == sess[k]
              t == onData(s, chunk)
              c == FramedCode(s, chunk)
          IN  (Live(s) /\ Framed(s, chunk) /\ c # NoCode) =>
                /\ t.step # s.step => (c < 400 /\ t.step = s.step + 1)
                /\ (t.outcome.success /\ ~s.outcome.success) =>
                      /\ s.step = 3
                      /\ c >= 200 /\ c < 300
                      /\ t.outcome.code = c
    /\ (pc = "done" /\ result.status = "deliverable") =>
          LET s == sess[Len(sess)]
          IN  /\ result.smtpHostTried = s.host
              /\ s.outcome.success
              /\ result.smtpCode = s.outcome.code
              /\ result.smtpCode >= 200 /\ result.smtpCode < 300

C20_Witness ==
    /\ pc = "done"
    /\ result.status = "deliverable"
    /\ Len(sess) = 2
    /\ result.smtpHostTried = sess[2].host
    /\ result.smtpCode = 250
    /\ sess[2].wire = <<"HELO", "MAIL FROM", "RCPT TO", "QUIT">>

====
